---- MODULE Spec2Model ----
(***************************************************************************)
(* csv_to_notion.py: push the rows of a CSV file into a Notion database,   *)
(* creating the rows whose composite key is not in the database and        *)
(* updating the others.                                                    *)
(*                                                                         *)
(* A Python str is a sequence of one-character strings, so that split,     *)
(* strip and join are computed and not assumed.  A Python dict with a      *)
(* fixed key is a record; a value that is either None or a dict is a       *)
(* sequence of length 0 or 1.                                              *)
(***************************************************************************)
EXTENDS Integers, Sequences, FiniteSets, TLC

\* ------------------------------------------------------------------ bounds
\* longest cell string of the codec specification
MaxLen == 3
\* most rows of the CSV file
MaxRows == 2
\* most pages of the database before the run
MaxPages == 2
\* most 429 answers the service gives to one call
Max429 == 2
\* most runs over the same CSV file
MaxRuns == 2

\* ----------------------------------------------------------------- strings
Chars == {"a", "b", ",", " "}
Whitespace == {" "}

RECURSIVE StringsUpTo(_)
StringsUpTo(n) ==
    IF n = 0 THEN {<<>>}
    ELSE LET shorter == StringsUpTo(n - 1)
         IN  shorter \cup {Append(s, c) : s \in {t \in shorter : Len(t) = n - 1}, c \in Chars}

\* str.split(sep) for a one-character sep: every separator cuts, empty
\* tokens are kept, the result always has at least one token.
RECURSIVE SplitAcc(_, _, _, _)
SplitAcc(s, sep, cur, acc) ==
    IF s = <<>> THEN Append(acc, cur)
    ELSE IF Head(s) = sep THEN SplitAcc(Tail(s), sep, <<>>, Append(acc, cur))
    ELSE SplitAcc(Tail(s), sep, Append(cur, Head(s)), acc)

Split(s, sep) == SplitAcc(s, sep, <<>>, <<>>)

RECURSIVE LStrip(_)
LStrip(s) ==
    IF s # <<>> /\ Head(s) \in Whitespace THEN LStrip(Tail(s)) ELSE s

RECURSIVE RStrip(_)
RStrip(s) ==
    IF s # <<>> /\ s[Len(s)] \in Whitespace THEN RStrip(SubSeq(s, 1, Len(s) - 1)) ELSE s

\* str.strip()
Strip(s) == RStrip(LStrip(s))

\* sep.join(parts)
RECURSIVE Join(_, _)
Join(parts, sep) ==
    IF parts = <<>> THEN <<>>
    ELSE IF Len(parts) = 1 THEN parts[1]
    ELSE parts[1] \o sep \o Join(Tail(parts), sep)

RECURSIVE MapSeq(_, _)
MapSeq(F(_), s) ==
    IF s = <<>> THEN <<>> ELSE <<F(Head(s))>> \o MapSeq(F, Tail(s))

RECURSIVE FilterSeq(_, _)
FilterSeq(P(_), s) ==
    IF s = <<>> THEN <<>>
    ELSE IF P(Head(s)) THEN <<Head(s)>> \o FilterSeq(P, Tail(s))
    ELSE FilterSeq(P, Tail(s))

\* variant of CommaTokens that keeps the tokens as split: [v for v in ... if v.strip()]
NoStripTokens(value) ==
    LET NonEmpty(v) == Strip(v) # <<>>
    IN  FilterSeq(NonEmpty, Split(value, ","))

\* [v.strip() for v in value.split(",") if v.strip()]
CommaTokens(value) ==
    LET NonEmpty(v) == Strip(v) # <<>>
    IN  MapSeq(Strip, FilterSeq(NonEmpty, Split(value, ",")))

ColonColon == <<":", ":">>
Comma == <<",">>

\* ------------------------------------------------------------------ config
SupportedKinds ==
    {"title", "text", "select", "multi_select", "relation", "people",
     "last_edited_by", "last_edited_time"}
ListKinds == {"multi_select", "relation", "people"}
\* a type none of the elif branches names
UnsupportedKind == "number"
AllKinds == SupportedKinds \cup {UnsupportedKind}

\* CSV_TO_NOTION_MAPPING in dict (insertion) order, and COMPOSITE_KEY
CSV_TO_NOTION_MAPPING ==
    << [csv |-> "Name", notion |-> "NameProp", type |-> "title"],
       [csv |-> "Group", notion |-> "GroupProp", type |-> "multi_select"] >>
COMPOSITE_KEY == <<"Name", "Group">>

\* mapping[csv_key]
MapInfo(mapping, csv_key) ==
    LET i == CHOOSE j \in 1..Len(mapping) : mapping[j].csv = csv_key
    IN  mapping[i]

\* ------------------------------------------------------------- key extraction
\* extract_composite_key: "::".join([str(row[k]) for k in keys]); every cell
\* csv.DictReader yields is a str already, and str of a str is that str.  A
\* key column the row does not have raises KeyError (ok = FALSE).
extract_composite_key(row, keys) ==
    IF \E i \in 1..Len(keys) : keys[i] \notin DOMAIN row
    THEN [ok |-> FALSE, key |-> <<>>]
    ELSE [ok |-> TRUE,
          key |-> Join([i \in 1..Len(keys) |-> row[keys[i]]], ColonColon)]

\* one pass of the for loop of extract_notion_composite_key: the string read
\* from property p of type typ
DecodeProp(typ, p) ==
    CASE typ = "title" ->
           IF p.title # <<>> THEN p.title[1].plain_text ELSE <<>>
      [] typ = "text" ->
           IF p.rich_text # <<>> THEN p.rich_text[1].plain_text ELSE <<>>
      [] typ = "select" ->
           IF p.select # <<>> THEN p.select[1].name ELSE <<>>
      [] typ = "multi_select" ->
           IF p.multi_select # <<>>
           THEN Join([i \in 1..Len(p.multi_select) |-> p.multi_select[i].name], Comma)
           ELSE <<>>
      [] typ = "relation" ->
           IF p.relation # <<>>
           THEN Join([i \in 1..Len(p.relation) |-> p.relation[i].id], Comma)
           ELSE <<>>
      [] typ = "people" ->
           IF p.people # <<>>
           THEN Join([i \in 1..Len(p.people) |-> p.people[i].id], Comma)
           ELSE <<>>
      [] typ = "last_edited_by" ->
           IF p.last_edited_by # <<>> THEN p.last_edited_by[1].id ELSE <<>>
      [] typ = "last_edited_time" ->
           IF p.last_edited_time # <<>> THEN p.last_edited_time ELSE <<>>
      [] OTHER -> <<>>

extract_notion_composite_key(page, mapping, keys) ==
    LET props == page.properties
        value(csv_key) ==
            LET info == MapInfo(mapping, csv_key)
            IN  DecodeProp(info.type, props[info.notion])
    IN  Join([i \in 1..Len(keys) |-> value(keys[i])], ColonColon)

\* ------------------------------------------------------------------ payload
\* the branch of make_notion_payload for one mapped column: the property
\* value written, as a sequence of length 0 when the branch writes nothing
PayloadProp(typ, value) ==
    CASE typ = "title" -> <<[title |-> <<[text |-> [content |-> value]]>>]>>
      [] typ = "text" -> <<[rich_text |-> <<[text |-> [content |-> value]]>>]>>
      [] typ = "select" ->
           IF value # <<>> THEN <<[select |-> <<[name |-> value]>>]>>
           ELSE <<[select |-> <<>>]>>
      [] typ = "multi_select" ->
           <<[multi_select |-> [i \in 1..Len(CommaTokens(value)) |->
                                  [name |-> CommaTokens(value)[i]]]]>>
      [] typ = "relation" ->
           <<[relation |-> [i \in 1..Len(CommaTokens(value)) |->
                              [id |-> CommaTokens(value)[i]]]]>>
      [] typ = "people" ->
           <<[people |-> [i \in 1..Len(CommaTokens(value)) |->
                            [id |-> CommaTokens(value)[i]]]]>>
      [] typ = "last_edited_by" ->
           IF value # <<>> THEN <<[last_edited_by |-> <<[id |-> value]>>]>> ELSE <<>>
      [] typ = "last_edited_time" ->
           IF value # <<>> THEN <<[last_edited_time |-> value]>> ELSE <<>>
      [] OTHER -> <<>>

\* props after the for loop has handled mapping[1..n]: a later column
\* overwrites an earlier one that names the same property
RECURSIVE PayloadProps(_, _, _)
PayloadProps(row, mapping, n) ==
    IF n = 0 THEN << >>
    ELSE LET before == PayloadProps(row, mapping, n - 1)
             info == mapping[n]
             written == PayloadProp(info.type, row[info.csv])
         IN  IF written = <<>> THEN before
             ELSE [q \in DOMAIN before \cup {info.notion} |->
                     IF q = info.notion THEN written[1] ELSE before[q]]

\* make_notion_payload; row[csv_col] of a column the row does not have
\* raises KeyError
make_notion_payload(row, mapping) ==
    IF \E i \in 1..Len(mapping) : mapping[i].csv \notin DOMAIN row
    THEN [ok |-> FALSE, properties |-> << >>]
    ELSE [ok |-> TRUE, properties |-> PayloadProps(row, mapping, Len(mapping))]

\* ------------------------------------------------------------ the service
\* What a query returns for a property that was written with `written`: the
\* rich-text kinds come back with plain_text holding the content sent, the
\* other kinds come back as sent.
StoredProp(typ, written) ==
    CASE typ = "title" ->
           [title |-> [i \in 1..Len(written.title) |->
                         [plain_text |-> written.title[i].text.content]]]
      [] typ = "text" ->
           [rich_text |-> [i \in 1..Len(written.rich_text) |->
                             [plain_text |-> written.rich_text[i].text.content]]]
      [] OTHER -> written

SysUser == <<"u">>
SysTime == <<"t">>

\* What a query returns for a property no write has set: empty, or the
\* value the service maintains itself.
DefaultProp(typ) ==
    CASE typ = "title" -> [title |-> <<>>]
      [] typ = "text" -> [rich_text |-> <<>>]
      [] typ = "select" -> [select |-> <<>>]
      [] typ = "multi_select" -> [multi_select |-> <<>>]
      [] typ = "relation" -> [relation |-> <<>>]
      [] typ = "people" -> [people |-> <<>>]
      [] typ = "last_edited_by" -> [last_edited_by |-> <<[id |-> SysUser]>>]
      [] typ = "last_edited_time" -> [last_edited_time |-> SysTime]
      [] OTHER -> [number |-> <<>>]

NotionProps(mapping) == {mapping[i].notion : i \in 1..Len(mapping)}

SchemaType(mapping, q) ==
    LET i == CHOOSE j \in 1..Len(mapping) : mapping[j].notion = q
    IN  mapping[i].type

\* the properties of a page after `written` (the properties of a payload)
\* has been applied to a page whose properties were `old`
ApplyProps(mapping, old, written) ==
    [q \in NotionProps(mapping) |->
        IF q \in DOMAIN written THEN StoredProp(SchemaType(mapping, q), written[q])
        ELSE old[q]]

NewPageProps(mapping) ==
    [q \in NotionProps(mapping) |-> DefaultProp(SchemaType(mapping, q))]

\* the page a successful create of `written` leaves in the database
CreatedPage(id, mapping, written) ==
    [id |-> id, properties |-> ApplyProps(mapping, NewPageProps(mapping), written)]

\* ------------------------------------------------------------------- state
VARIABLES
    csv_file,       \* the CSV file: [header: set of columns, rows: sequence of rows]
    dryrun,         \* args.dryrun
    db,             \* the pages of the Notion database, in query order
    pc,             \* where main is
    csv_rows,       \* main's csv_rows
    notion_pages,   \* main's notion_pages
    results,        \* get_notion_db_items: results
    composite_keys_set, \* get_notion_db_items: composite_keys_set
    next_cursor,    \* get_notion_db_items: next_cursor (0 is None)
    queryLog,       \* the start_cursor of every query request sent
    responseLog,    \* the answers to the query requests, in arrival order
    new_rows,       \* main's new_rows
    update_rows,    \* main's update_rows
    idx,            \* position of the for loop of register_to_notion / update_notion
    inCall,         \* the while True loop of the current row is still running
    callSleeps,     \* the time.sleep durations of the latest call, in order
    callRequests,   \* the number of requests of the latest call
    lastReq,        \* the latest create or update request sent (op "none": none yet)
    callResponses,  \* the responses received in the latest call, in order
    spin,           \* parity of the retries of the latest call that the logs no longer hold
    out,            \* the lines printed, but for the [WARN] lines (see callSleeps)
    err,            \* the exception that ended the run
    exitStatus,     \* the exit status of the process (-1 while it runs)
    run,            \* which run over the same CSV file this is (1 is the first)
    createdKeys,    \* the keys of the rows whose POST /pages got 200, over all runs
    cpc, cKind, cStr, cName, cKeys, cPayload, cPage, cLocalKey, cRemoteKey, cDecoded,
    cPrinted        \* the lines printed while the row is encoded and its page decoded

runVars ==
    <<csv_file, dryrun, db, pc, csv_rows, notion_pages, results, composite_keys_set,
      next_cursor, queryLog, responseLog, new_rows, update_rows, idx, inCall,
      callSleeps, callRequests, lastReq, callResponses, spin, out, err, exitStatus,
      run, createdKeys>>
codecVars ==
    <<cpc, cKind, cStr, cName, cKeys, cPayload, cPage, cLocalKey, cRemoteKey, cDecoded,
      cPrinted>>
vars == <<runVars, codecVars>>

NoError == [type |-> "none", key |-> <<>>, at |-> 0]
NoRequest == [op |-> "none", target |-> 0, row |-> << >>, properties |-> << >>]

\* ------------------------------------------------- the codec on its own
\* One column of every kind beside a title column; the row, its payload, the
\* page the service keeps for the payload, and the keys of both.
CodecMapping(kind) ==
    << [csv |-> "Name", notion |-> "NameProp", type |-> "title"],
       [csv |-> "Col", notion |-> "ColProp", type |-> kind] >>
CodecRow == [Name |-> cName, Col |-> cStr]
CodecKeySpecs == {<<"Col">>, <<"Name", "Col">>}

CodecIdle ==
    /\ cpc = "off" /\ cKind = "title" /\ cStr = <<>> /\ cName = <<>>
    /\ cKeys = <<"Col">> /\ cPayload = << >> /\ cPage = << >>
    /\ cLocalKey = <<>> /\ cRemoteKey = <<>> /\ cDecoded = <<>> /\ cPrinted = <<>>

RunIdle ==
    /\ csv_file = [header |-> {}, rows |-> <<>>] /\ dryrun = TRUE /\ db = <<>>
    /\ pc = "off" /\ csv_rows = <<>> /\ notion_pages = <<>> /\ results = <<>>
    /\ composite_keys_set = {} /\ next_cursor = 0 /\ queryLog = <<>>
    /\ responseLog = <<>> /\ spin = FALSE /\ createdKeys = <<>>
    /\ new_rows = <<>> /\ update_rows = <<>> /\ idx = 0 /\ inCall = FALSE
    /\ callSleeps = <<>> /\ callRequests = 0 /\ lastReq = NoRequest
    /\ callResponses = <<>> /\ out = <<>>
    /\ err = NoError /\ exitStatus = -1 /\ run = 0

CodecInit ==
    /\ RunIdle
    /\ cpc = "row"
    /\ cKind \in AllKinds
    /\ cStr \in StringsUpTo(MaxLen)
    /\ cName \in {<<>>, <<"a">>}
    /\ cKeys \in CodecKeySpecs
    /\ cPayload = << >> /\ cPage = << >>
    /\ cLocalKey = <<>> /\ cRemoteKey = <<>> /\ cDecoded = <<>> /\ cPrinted = <<>>

CodecEncode ==
    /\ cpc = "row"
    /\ cPayload' = make_notion_payload(CodecRow, CodecMapping(cKind)).properties
    /\ cpc' = "encoded"
    /\ UNCHANGED <<cKind, cStr, cName, cKeys, cPage, cLocalKey, cRemoteKey, cDecoded,
                   cPrinted>>
    /\ UNCHANGED runVars

CodecStore ==
    /\ cpc = "encoded"
    /\ cPage' = CreatedPage(1, CodecMapping(cKind), cPayload)
    /\ cpc' = "stored"
    /\ UNCHANGED <<cKind, cStr, cName, cKeys, cPayload, cLocalKey, cRemoteKey, cDecoded,
                   cPrinted>>
    /\ UNCHANGED runVars

CodecDecode ==
    /\ cpc = "stored"
    /\ cLocalKey' = extract_composite_key(CodecRow, cKeys).key
    /\ cRemoteKey' = extract_notion_composite_key(cPage, CodecMapping(cKind), cKeys)
    /\ cDecoded' = extract_notion_composite_key(cPage, CodecMapping(cKind), <<"Col">>)
    /\ cpc' = "decoded"
    /\ UNCHANGED <<cKind, cStr, cName, cKeys, cPayload, cPage, cPrinted>>
    /\ UNCHANGED runVars

CodecNext == CodecEncode \/ CodecStore \/ CodecDecode

SpecCodec == CodecInit /\ [][CodecNext]_vars

\* ------------------------------------------------------------ the run: helpers
Line(tag, args) == [tag |-> tag, args |-> args]

\* load_csv: the rows in file order, or the exception raised while reading
\* row `at` (KeyError from extract_composite_key, ValueError for a repeated key)
RECURSIVE LoadScan(_, _, _, _, _)
LoadScan(rows, keys, i, acc, seen) ==
    IF i > Len(rows) THEN [ok |-> TRUE, rows |-> acc, err |-> NoError]
    ELSE LET k == extract_composite_key(rows[i], keys)
         IN  IF ~k.ok
             THEN [ok |-> FALSE, rows |-> acc,
                   err |-> [type |-> "KeyError", key |-> <<>>, at |-> i]]
             ELSE IF k.key \in seen
             THEN [ok |-> FALSE, rows |-> acc,
                   err |-> [type |-> "DuplicateLocalKey", key |-> k.key, at |-> i]]
             ELSE LoadScan(rows, keys, i + 1, Append(acc, rows[i]), seen \cup {k.key})

\* variant of load_csv without the membership test of line 19
load_csv_unchecked(file, keys) ==
    IF \E i \in 1..Len(file.rows) : ~extract_composite_key(file.rows[i], keys).ok
    THEN [ok |-> FALSE, rows |-> <<>>, err |-> [type |-> "KeyError", key |-> <<>>, at |-> 1]]
    ELSE [ok |-> TRUE, rows |-> file.rows, err |-> NoError]

load_csv(file, keys) == LoadScan(file.rows, keys, 1, <<>>, {})

\* the for loop of get_notion_db_items over one response's "results"; `first`
\* is the position in the database of the batch's first page
RECURSIVE ScanBatch(_, _, _, _, _, _)
ScanBatch(batch, first, res, seen, mapping, keys) ==
    IF batch = <<>> THEN [ok |-> TRUE, results |-> res, seen |-> seen, err |-> NoError]
    ELSE LET k == extract_notion_composite_key(Head(batch), mapping, keys)
         IN  IF k \in seen
             THEN [ok |-> FALSE, results |-> res, seen |-> seen,
                   err |-> [type |-> "DuplicateRemoteKey", key |-> k, at |-> first]]
             ELSE ScanBatch(Tail(batch), first + 1, Append(res, Head(batch)),
                            seen \cup {k}, mapping, keys)

\* variant of SeenSoFar: the set is made anew for every response
SeenPerResponse(seen) == {}
\* composite_keys_set is made once, before the while loop, so the for loop
\* of a response starts from the keys of the responses before it
SeenSoFar(seen) == seen

\* variant of IsNew with the test turned round
IsUpdate(row_key, notion_keys) == row_key \in notion_keys
\* line 99: if row_key not in notion_keys
IsNew(row_key, notion_keys) == row_key \notin notion_keys

\* filter_new_rows
RECURSIVE FilterScan(_, _, _, _, _, _)
FilterScan(rows, keys, notion_keys, new, upd, printed) ==
    IF rows = <<>> THEN [new_rows |-> new, update_rows |-> upd, printed |-> printed]
    ELSE LET row_key == extract_composite_key(Head(rows), keys).key
         IN  IF IsNew(row_key, notion_keys)
             THEN FilterScan(Tail(rows), keys, notion_keys, Append(new, Head(rows)),
                             upd, printed)
             ELSE FilterScan(Tail(rows), keys, notion_keys, new, Append(upd, Head(rows)),
                             Append(printed, Line("SKIP", <<row_key>>)))

filter_new_rows(rows, pages, mapping, keys) ==
    LET notion_keys ==
            {extract_notion_composite_key(pages[i], mapping, keys) : i \in 1..Len(pages)}
    IN  FilterScan(rows, keys, notion_keys, <<>>, <<>>, <<>>)

\* update_notion, lines 183-187: the id of the first page whose key is
\* row_key, 0 (None) when there is none
RECURSIVE FindFrom(_, _, _, _, _)
FindFrom(row_key, pages, mapping, keys, i) ==
    IF i > Len(pages) THEN 0
    ELSE IF extract_notion_composite_key(pages[i], mapping, keys) = row_key THEN pages[i].id
    ELSE FindFrom(row_key, pages, mapping, keys, i + 1)

\* variant of FindPageId that takes the first page without comparing keys
FirstPageId(row_key, pages, mapping, keys) ==
    IF pages = <<>> THEN 0 ELSE pages[1].id

FindPageId(row_key, pages, mapping, keys) == FindFrom(row_key, pages, mapping, keys, 1)

\* int() of a header value
DigitValue(c) ==
    CASE c = "0" -> 0 [] c = "1" -> 1 [] c = "2" -> 2 [] c = "3" -> 3 [] c = "4" -> 4
      [] c = "5" -> 5 [] c = "6" -> 6 [] c = "7" -> 7 [] c = "8" -> 8 [] c = "9" -> 9
RECURSIVE ParseInt(_)
ParseInt(s) ==
    IF s = <<>> THEN 0 ELSE 10 * ParseInt(SubSeq(s, 1, Len(s) - 1)) + DigitValue(s[Len(s)])

\* variant of RetryAfter with a default of 0
RetryAfterZeroDefault(resp) ==
    IF resp.retry_after = <<>> THEN 0 ELSE ParseInt(resp.retry_after[1])
\* int(resp.headers.get("Retry-After", 1))
RetryAfter(resp) ==
    IF resp.retry_after = <<>> THEN 1 ELSE ParseInt(resp.retry_after[1])

\* variant of AfterFailure that leaves the for loop
AbortBatch(i, n) == n + 1
\* the break of the else branch leaves the while loop only: the for loop goes
\* on with the next row
AfterFailure(i, n) == i + 1

\* variant of ShouldUpsert that ignores the switch
AlwaysUpsert(dry) == TRUE
\* line 221: if not args.dryrun
ShouldUpsert(dry) == ~dry

\* variant of lines 39-40 that never sets start_cursor
NoStartCursor(cursor) == 0
\* lines 38-40: the start_cursor of the payload (0: the payload has none)
StartCursor(cursor) == IF cursor # 0 THEN cursor ELSE 0

\* variant of get_notion_db_items that catches the exception of a request and
\* returns the records collected so far
FetchReturnsPartial(partial) == [returned |-> TRUE, pages |-> partial]
\* lines 41-43 are in no try block: an exception leaves get_notion_db_items
\* without a return value, whatever it has collected
FetchAborted(partial) == [returned |-> FALSE, pages |-> <<>>]

\* ----------------------------------------------------- the run: environment
PageSize == 100

CsvHeaders == {{"Name", "Group"}, {"Group"}}
CellValues(col) ==
    IF col = "Name" THEN {<<"a">>} ELSE {<<>>, <<"b">>, <<"a", ",", " ", "b">>}
CsvRowsOf(header) ==
    {r \in [header -> CellValues("Name") \cup CellValues("Group")] :
        \A c \in header : r[c] \in CellValues(c)}
SeqsUpTo(S, n) == UNION {[1..k -> S] : k \in 0..n}
CsvFiles ==
    UNION {{[header |-> h, rows |-> rs] : rs \in SeqsUpTo(CsvRowsOf(h), MaxRows)} :
              h \in CsvHeaders}

\* the database holds pages that writes of rows have left there
PageContents ==
    {CreatedPage(0, CSV_TO_NOTION_MAPPING,
                 make_notion_payload(r, CSV_TO_NOTION_MAPPING).properties).properties :
        r \in CsvRowsOf({"Name", "Group"})}
Databases ==
    {[i \in 1..Len(c) |-> [id |-> i, properties |-> c[i]]] :
        c \in SeqsUpTo(PageContents, MaxPages)}

\* no Retry-After header, or one that names 2 seconds
RetryAfterHeaders == {<<>>, << <<"2">> >>}
OkResponse == [status |-> 200, retry_after |-> <<>>, text |-> <<>>]
RateLimited(h) == [status |-> 429, retry_after |-> h, text |-> <<>>]
Refused == [status |-> 400, retry_after |-> <<>>, text |-> <<"e">>]
\* the answers the service may give to a request that follows n 429 answers
Responses(n) ==
    {OkResponse, Refused} \cup
    (IF n < Max429 THEN {RateLimited(h) : h \in RetryAfterHeaders} ELSE {})

Min2(a, b) == IF a <= b THEN a ELSE b

\* --------------------------------------------------------- the run: actions
Init ==
    /\ CodecIdle
    /\ csv_file \in CsvFiles
    /\ dryrun \in BOOLEAN
    /\ db \in Databases
    /\ pc = "load"
    /\ csv_rows = <<>> /\ notion_pages = <<>> /\ results = <<>>
    /\ composite_keys_set = {} /\ next_cursor = 0 /\ queryLog = <<>>
    /\ responseLog = <<>> /\ spin = FALSE /\ createdKeys = <<>>
    /\ new_rows = <<>> /\ update_rows = <<>> /\ idx = 0 /\ inCall = FALSE
    /\ callSleeps = <<>> /\ callRequests = 0 /\ lastReq = NoRequest
    /\ callResponses = <<>> /\ out = <<>>
    /\ err = NoError /\ exitStatus = -1 /\ run = 1

fetchVars ==
    <<results, composite_keys_set, next_cursor, queryLog, responseLog, notion_pages>>
callVars == <<inCall, callSleeps, callRequests, lastReq, callResponses, spin>>
runsVars == <<run, createdKeys>>

\* an uncaught exception ends the process with status 1
Raise(e) == pc' = "error" /\ err' = e /\ exitStatus' = 1

\* main, line 218
LoadCsv ==
    /\ pc = "load"
    /\ LET r == load_csv(csv_file, COMPOSITE_KEY)
       IN  IF r.ok
           THEN /\ csv_rows' = r.rows
                /\ pc' = "fetch"
                /\ UNCHANGED <<err, exitStatus>>
           ELSE /\ Raise(r.err)
                /\ UNCHANGED csv_rows
    /\ UNCHANGED <<csv_file, dryrun, db, new_rows, update_rows, idx, out>>
    /\ UNCHANGED fetchVars /\ UNCHANGED callVars /\ UNCHANGED codecVars /\ UNCHANGED runsVars

\* main, line 219: one pass of the while loop of get_notion_db_items whose
\* request is answered
QueryPage ==
    /\ pc = "fetch"
    /\ LET sent == StartCursor(next_cursor)
           pos == IF sent # 0 THEN sent ELSE 1
           left == Len(db) - pos + 1
       IN  \E n \in (IF left = 0 THEN {0} ELSE 1..Min2(left, PageSize)) :
             LET batch == SubSeq(db, pos, pos + n - 1)
                 has_more == pos + n <= Len(db)
                 scan == ScanBatch(batch, pos, results, SeenSoFar(composite_keys_set),
                                   CSV_TO_NOTION_MAPPING, COMPOSITE_KEY)
             IN  /\ queryLog' = Append(queryLog, sent)
                 /\ responseLog' =
                        Append(responseLog,
                               [results |-> batch, has_more |-> has_more,
                                next_cursor |-> IF has_more THEN pos + n ELSE 0])
                 /\ results' = scan.results
                 /\ composite_keys_set' = scan.seen
                 /\ IF ~scan.ok
                    THEN /\ Raise(scan.err)
                         /\ UNCHANGED <<next_cursor, notion_pages>>
                    ELSE /\ next_cursor' = IF has_more THEN pos + n ELSE 0
                         /\ IF has_more
                            THEN pc' = "fetch" /\ UNCHANGED notion_pages
                            ELSE pc' = "filter" /\ notion_pages' = scan.results
                         /\ UNCHANGED <<err, exitStatus>>
    /\ UNCHANGED <<csv_file, dryrun, db, csv_rows, new_rows, update_rows, idx, out>>
    /\ UNCHANGED callVars /\ UNCHANGED codecVars /\ UNCHANGED runsVars

\* requests.post raises, raise_for_status raises, or resp.json() raises
QueryFail ==
    /\ pc = "fetch"
    /\ queryLog' = Append(queryLog, StartCursor(next_cursor))
    /\ LET e == [type |-> "RequestError", key |-> <<>>, at |-> Len(queryLog) + 1]
           f == FetchAborted(results)
       IN  IF f.returned
           THEN /\ pc' = "filter" /\ notion_pages' = f.pages
                /\ err' = e /\ UNCHANGED exitStatus
           ELSE /\ Raise(e) /\ UNCHANGED notion_pages
    /\ UNCHANGED <<csv_file, dryrun, db, csv_rows, new_rows, update_rows, idx, out,
                   results, composite_keys_set, next_cursor, responseLog>>
    /\ UNCHANGED callVars /\ UNCHANGED codecVars /\ UNCHANGED runsVars

\* main, line 220
FilterNewRows ==
    /\ pc = "filter"
    /\ LET f == filter_new_rows(csv_rows, notion_pages, CSV_TO_NOTION_MAPPING, COMPOSITE_KEY)
       IN  /\ new_rows' = f.new_rows
           /\ update_rows' = f.update_rows
           /\ out' = out \o f.printed
    /\ pc' = "dispatch"
    /\ UNCHANGED <<csv_file, dryrun, db, csv_rows, idx, err, exitStatus>>
    /\ UNCHANGED fetchVars /\ UNCHANGED callVars /\ UNCHANGED codecVars /\ UNCHANGED runsVars

\* main, lines 221-222: register_to_notion is entered
StartUpsert ==
    /\ pc = "dispatch"
    /\ ShouldUpsert(dryrun)
    /\ pc' = "register"
    /\ idx' = 1
    /\ UNCHANGED <<csv_file, dryrun, db, csv_rows, new_rows, update_rows, out, err,
                   exitStatus>>
    /\ UNCHANGED fetchVars /\ UNCHANGED callVars /\ UNCHANGED codecVars /\ UNCHANGED runsVars

\* main, lines 224-225
DryRunSkip ==
    /\ pc = "dispatch"
    /\ ~ShouldUpsert(dryrun)
    /\ out' = Append(out, Line("DRYRUN", <<>>))
    /\ pc' = "finish"
    /\ UNCHANGED <<csv_file, dryrun, db, csv_rows, new_rows, update_rows, idx, err,
                   exitStatus>>
    /\ UNCHANGED fetchVars /\ UNCHANGED callVars /\ UNCHANGED codecVars /\ UNCHANGED runsVars

\* variant of lines 159-162 that leaves the while loop of the row after the sleep
SkipOnRateLimit(i) == i + 1
\* lines 161-162: after the sleep, continue: the same row is sent again
AfterRateLimit(i) == i

\* what the if / elif / else on resp.status_code does, for both loops
Handle(resp, op, target, row, payload, okTag, errTag, n) ==
    LET sleeps == IF inCall THEN callSleeps ELSE <<>>
        sent == IF inCall THEN callRequests ELSE 0
        row_key == extract_composite_key(row, COMPOSITE_KEY).key
    IN  /\ lastReq' = [op |-> op, target |-> target, row |-> row,
                        properties |-> payload.properties]
        /\ callResponses' = Append(IF inCall THEN callResponses ELSE <<>>, resp)
        /\ callRequests' = sent + 1
        /\ spin' = FALSE
        /\ CASE resp.status = 200 ->
                  /\ out' = Append(out, Line(okTag, <<row_key>>))
                  /\ idx' = idx + 1
                  /\ inCall' = FALSE
                  /\ callSleeps' = sleeps
             [] resp.status = 429 ->
                  /\ callSleeps' = Append(sleeps, RetryAfter(resp))
                  /\ idx' = AfterRateLimit(idx)
                  /\ inCall' = (idx' = idx)
                  /\ UNCHANGED out
             [] OTHER ->
                  /\ out' = Append(out, Line(errTag, <<row_key, resp.text>>))
                  /\ idx' = AfterFailure(idx, n)
                  /\ inCall' = FALSE
                  /\ callSleeps' = sleeps

\* register_to_notion: one request of the while True loop of row idx
RegisterRequest ==
    /\ pc = "register"
    /\ idx <= Len(new_rows)
    /\ LET row == new_rows[idx]
           payload == make_notion_payload(row, CSV_TO_NOTION_MAPPING)
       IN  IF ~payload.ok
           THEN /\ Raise([type |-> "KeyError", key |-> <<>>, at |-> idx])
                /\ UNCHANGED <<db, idx, out, createdKeys>> /\ UNCHANGED callVars
           ELSE \E resp \in Responses(IF inCall THEN Len(callSleeps) ELSE 0) :
                  /\ Handle(resp, "create", 0, row, payload, "OK_REG", "ERR_REG",
                            Len(new_rows))
                  /\ createdKeys' =
                        IF resp.status = 200
                        THEN Append(createdKeys,
                                    extract_composite_key(row, COMPOSITE_KEY).key)
                        ELSE createdKeys
                  /\ db' = IF resp.status = 200
                           THEN Append(db, CreatedPage(Len(db) + 1, CSV_TO_NOTION_MAPPING,
                                                       payload.properties))
                           ELSE db
                  /\ UNCHANGED <<pc, err, exitStatus>>
    /\ UNCHANGED <<csv_file, dryrun, csv_rows, new_rows, update_rows, run>>
    /\ UNCHANGED fetchVars /\ UNCHANGED codecVars

\* register_to_notion returns; main, line 223: update_notion is entered
RegisterReturn ==
    /\ pc = "register"
    /\ idx > Len(new_rows)
    /\ pc' = "update"
    /\ idx' = 1
    /\ UNCHANGED <<csv_file, dryrun, db, csv_rows, new_rows, update_rows, out, err,
                   exitStatus>>
    /\ UNCHANGED fetchVars /\ UNCHANGED callVars /\ UNCHANGED codecVars /\ UNCHANGED runsVars

\* update_notion: the page id lookup, then one request of the while True
\* loop of row idx
UpdateRequest ==
    /\ pc = "update"
    /\ idx <= Len(update_rows)
    /\ LET row == update_rows[idx]
           row_key == extract_composite_key(row, COMPOSITE_KEY).key
           page_id == FindPageId(row_key, notion_pages, CSV_TO_NOTION_MAPPING, COMPOSITE_KEY)
           payload == make_notion_payload(row, CSV_TO_NOTION_MAPPING)
       IN  IF page_id = 0
           THEN /\ out' = Append(out, Line("ERR_NOPAGE", <<row_key>>))
                /\ idx' = idx + 1
                /\ UNCHANGED <<db, pc, err, exitStatus>> /\ UNCHANGED callVars
           ELSE IF ~payload.ok
           THEN /\ Raise([type |-> "KeyError", key |-> <<>>, at |-> idx])
                /\ UNCHANGED <<db, idx, out>> /\ UNCHANGED callVars
           ELSE \E resp \in Responses(IF inCall THEN Len(callSleeps) ELSE 0) :
                  /\ Handle(resp, "update", page_id, row, payload, "OK_UPD", "ERR_UPD",
                            Len(update_rows))
                  /\ db' = IF resp.status = 200
                           THEN [i \in 1..Len(db) |->
                                   IF db[i].id = page_id
                                   THEN [db[i] EXCEPT !.properties =
                                           ApplyProps(CSV_TO_NOTION_MAPPING, @,
                                                      payload.properties)]
                                   ELSE db[i]]
                           ELSE db
                  /\ UNCHANGED <<pc, err, exitStatus>>
    /\ UNCHANGED <<csv_file, dryrun, csv_rows, new_rows, update_rows>>
    /\ UNCHANGED fetchVars /\ UNCHANGED codecVars /\ UNCHANGED runsVars

\* update_notion returns
UpdateReturn ==
    /\ pc = "update"
    /\ idx > Len(update_rows)
    /\ pc' = "finish"
    /\ UNCHANGED <<csv_file, dryrun, db, csv_rows, new_rows, update_rows, idx, out, err,
                   exitStatus>>
    /\ UNCHANGED fetchVars /\ UNCHANGED callVars /\ UNCHANGED codecVars /\ UNCHANGED runsVars

\* main, line 226, and the return of main: the process exits with status 0
Finish ==
    /\ pc = "finish"
    /\ out' = Append(out, Line("DONE", <<>>))
    /\ pc' = "done"
    /\ exitStatus' = 0
    /\ UNCHANGED <<csv_file, dryrun, db, csv_rows, new_rows, update_rows, idx, err>>
    /\ UNCHANGED fetchVars /\ UNCHANGED callVars /\ UNCHANGED codecVars /\ UNCHANGED runsVars

Next ==
    \/ LoadCsv
    \/ QueryPage
    \/ QueryFail
    \/ FilterNewRows
    \/ StartUpsert
    \/ DryRunSkip
    \/ RegisterRequest
    \/ RegisterReturn
    \/ UpdateRequest
    \/ UpdateReturn
    \/ Finish

Spec == Init /\ [][Next]_vars

\* the command is run again on the same CSV file, with the same options: a
\* new process, and the database as the run before left it
Rerun ==
    /\ pc = "done"
    /\ run < MaxRuns
    /\ run' = run + 1
    /\ pc' = "load"
    /\ csv_rows' = <<>> /\ notion_pages' = <<>> /\ results' = <<>>
    /\ composite_keys_set' = {} /\ next_cursor' = 0 /\ queryLog' = <<>>
    /\ responseLog' = <<>>
    /\ new_rows' = <<>> /\ update_rows' = <<>> /\ idx' = 0 /\ inCall' = FALSE
    /\ callSleeps' = <<>> /\ callRequests' = 0 /\ lastReq' = NoRequest
    /\ callResponses' = <<>> /\ spin' = FALSE /\ out' = <<>>
    /\ err' = NoError /\ exitStatus' = -1
    /\ UNCHANGED <<csv_file, dryrun, db, createdKeys>>
    /\ UNCHANGED codecVars

NextRerun == Next \/ Rerun

SpecRerun == Init /\ [][NextRerun]_vars

\* lines 159-162 (and 198-201) once the logs of the call hold Max429 answers:
\* one more 429, sleep and continue, of which only the parity is kept
ThrottledAgain ==
    /\ pc \in {"register", "update"}
    /\ inCall
    /\ Len(callSleeps) >= Max429
    /\ spin' = ~spin
    /\ UNCHANGED <<csv_file, dryrun, db, pc, csv_rows, new_rows, update_rows, idx, out,
                   err, exitStatus, inCall, callSleeps, callRequests, lastReq,
                   callResponses>>
    /\ UNCHANGED fetchVars /\ UNCHANGED codecVars /\ UNCHANGED runsVars

\* the run with a service that may answer 429 without end
NextLive == Next \/ ThrottledAgain

\* the steps of main and of the two for loops between the requests
Control ==
    \/ LoadCsv \/ QueryPage \/ QueryFail \/ FilterNewRows \/ StartUpsert
    \/ DryRunSkip \/ RegisterReturn \/ UpdateReturn \/ Finish
\* a create or update request and its answer
Write == RegisterRequest \/ UpdateRequest \/ ThrottledAgain
\* a row of the current batch is still to be written: Write can take a step
\* in just these states, as requests.post / requests.patch can always be
\* called and each of their answers changes the state
Writing ==
    \/ pc = "register" /\ idx <= Len(new_rows)
    \/ pc = "update" /\ idx <= Len(update_rows)

\* The single thread always takes its next step, and every request it sends
\* is answered: weak fairness of Control and of Write, the latter written
\* out with Writing for ENABLED <<Write>>_vars.
SpecLive ==
    /\ Init /\ [][NextLive]_vars
    /\ WF_vars(Control)
    /\ ([]<>(~Writing) \/ []<><<Write>>_vars)

\* ------------------------------------------------------- claims on the codec
\* normalize, as the round-trip law states it, by positions: the string is
\* cut at its commas, each piece is narrowed to the span from its first to
\* its last non-blank character, pieces without one are dropped, and the
\* rest are put back in order with one comma between neighbours.
NormCuts(s) == {0, Len(s) + 1} \cup {i \in 1..Len(s) : s[i] = ","}
NormPieces(s) ==
    {pq \in NormCuts(s) \X NormCuts(s) :
        /\ pq[1] < pq[2]
        /\ ~\E c \in NormCuts(s) : pq[1] < c /\ c < pq[2]}
NormCore(s, pq) == {i \in (pq[1] + 1)..(pq[2] - 1) : s[i] # " "}
NormKept(s) == {pq \in NormPieces(s) : NormCore(s, pq) # {}}
NormToken(s, pq) ==
    LET core == NormCore(s, pq)
        first == CHOOSE i \in core : \A j \in core : i <= j
        last == CHOOSE i \in core : \A j \in core : j <= i
    IN  [k \in 1..(last - first + 1) |-> s[first + k - 1]]
NormNth(s, n) ==
    CHOOSE pq \in NormKept(s) :
        Cardinality({o \in NormKept(s) : o[1] < pq[1]}) = n - 1
RECURSIVE NormUpTo(_, _)
NormUpTo(s, n) ==
    IF n = 0 THEN <<>>
    ELSE IF n = 1 THEN NormToken(s, NormNth(s, 1))
    ELSE NormUpTo(s, n - 1) \o <<",">> \o NormToken(s, NormNth(s, n))
Normalize(s) == NormUpTo(s, Cardinality(NormKept(s)))

\* C1: the key of the local row equals the key read back from the page that
\* holds what make_notion_payload wrote for the row, for every supported kind
\* of the key column.
C1_KeysAgree ==
    (cpc = "decoded" /\ cKind \in SupportedKinds) => cLocalKey = cRemoteKey

\* C10: for a non-empty string and a list kind, reading back what
\* make_notion_payload wrote yields normalize of the string.
C10_RoundTrip ==
    (cpc = "decoded" /\ cKind \in ListKinds /\ cStr # <<>>)
        => cDecoded = Normalize(cStr)

C10_Witness ==
    /\ cpc = "decoded"
    /\ cKind = "relation"
    /\ cStr = <<" ", "a", ",">>
    /\ cDecoded = <<"a">>

\* --------------------------------------------------------- claims on the run
LocalKey(row) == extract_composite_key(row, COMPOSITE_KEY).key
RemoteKey(page) == extract_notion_composite_key(page, CSV_TO_NOTION_MAPPING, COMPOSITE_KEY)
RemoteKeys(pages) == {RemoteKey(pages[i]) : i \in 1..Len(pages)}
Reconciled == pc \in {"dispatch", "register", "update", "finish", "done"}
NoWriteSent == lastReq.op = "none"
Tags(ts) ==
    LET Wanted(l) == l.tag \in ts
    IN  SelectSeq(out, Wanted)
TaggedKeys(ts) == [i \in 1..Len(Tags(ts)) |-> Tags(ts)[i].args[1]]
Least(S) == CHOOSE j \in S : \A k \in S : j <= k

\* C2: after filter_new_rows every loaded row is in exactly one of new_rows
\* and update_rows, in file order: in new_rows iff its key is the key of no
\* fetched page; with no key in common, new_rows is all the rows.
C2_Classification ==
    Reconciled =>
        LET remote == RemoteKeys(notion_pages)
            Absent(r) == LocalKey(r) \notin remote
            Present(r) == LocalKey(r) \in remote
            In(r, rows) == \E j \in 1..Len(rows) : rows[j] = r
        IN  /\ new_rows = SelectSeq(csv_rows, Absent)
            /\ update_rows = SelectSeq(csv_rows, Present)
            /\ Len(new_rows) + Len(update_rows) = Len(csv_rows)
            /\ \A i \in 1..Len(csv_rows) :
                  In(csv_rows[i], new_rows) # In(csv_rows[i], update_rows)
            /\ ({LocalKey(csv_rows[i]) : i \in 1..Len(csv_rows)} \cap remote = {}
                  => new_rows = csv_rows /\ update_rows = <<>>)

C2_Witness ==
    /\ pc = "dispatch"
    /\ new_rows # <<>>
    /\ update_rows # <<>>
    /\ notion_pages # <<>>

\* C3: every update request is for a row of update_rows and targets the id of
\* the fetched page whose key is the row's key, and no row of update_rows is
\* passed over for want of a page id.
C3_UpdateTargetsMatchingPage ==
    /\ lastReq.op = "update" =>
          /\ \E j \in 1..Len(update_rows) : update_rows[j] = lastReq.row
          /\ \E i \in 1..Len(notion_pages) :
                /\ notion_pages[i].id = lastReq.target
                /\ RemoteKey(notion_pages[i]) = LocalKey(lastReq.row)
          /\ \A i \in 1..Len(notion_pages) :
                RemoteKey(notion_pages[i]) = LocalKey(lastReq.row)
                    => notion_pages[i].id = lastReq.target
    /\ Tags({"ERR_NOPAGE"}) = <<>>
    /\ (pc \in {"finish", "done"} /\ ~dryrun)
          => TaggedKeys({"OK_UPD", "ERR_UPD"})
                = [i \in 1..Len(update_rows) |-> LocalKey(update_rows[i])]

C3_Witness ==
    /\ lastReq.op = "update"
    /\ lastReq.target = 2
    /\ Len(notion_pages) = 2

\* C4: in one call, every response but the last is a 429, each 429 is
\* followed by one sleep of the duration its Retry-After names (1 without the
\* header) and one more request, and nothing else sleeps.
Suggested(resp) ==
    CASE resp.retry_after = <<>> -> 1
      [] resp.retry_after = << <<"2">> >> -> 2
C4_BackoffPerRateLimit ==
    LET n == Len(callResponses)
        limited == {i \in 1..n : callResponses[i].status = 429}
    IN  /\ callRequests = n
        /\ limited = 1..(IF inCall THEN n ELSE n - 1) \/ n = 0
        /\ callSleeps = [i \in limited |-> Suggested(callResponses[i])]
        /\ Len(callSleeps) = Cardinality(limited)
        /\ inCall => pc \in {"register", "update"}

C4_Witness ==
    /\ ~inCall
    /\ callResponses = <<RateLimited(<< <<"2">> >>), RateLimited(<<>>), OkResponse>>
    /\ callSleeps = <<2, 1>>
    /\ callRequests = 3
    /\ out[Len(out)].tag = "OK_UPD"

\* C5: a response that is neither 200 nor 429 ends the call of its row with
\* an [ERR] line and without another request, and the loop goes on: the rows
\* of each batch get one outcome line each, in batch order.
C5_FailureDoesNotAbortBatch ==
    LET regDone == IF pc = "register" THEN idx - 1
                   ELSE IF pc \in {"update", "finish", "done"} /\ ~dryrun
                   THEN Len(new_rows) ELSE 0
        updDone == IF pc = "update" THEN idx - 1
                   ELSE IF pc \in {"finish", "done"} /\ ~dryrun
                   THEN Len(update_rows) ELSE 0
        n == Len(callResponses)
    IN  /\ TaggedKeys({"OK_REG", "ERR_REG"})
              = [i \in 1..regDone |-> LocalKey(new_rows[i])]
        /\ TaggedKeys({"OK_UPD", "ERR_UPD"})
              = [i \in 1..updDone |-> LocalKey(update_rows[i])]
        /\ (n > 0 /\ callResponses[n].status \notin {200, 429}) =>
              /\ ~inCall
              /\ pc \in {"register", "update", "finish", "done"}
              /\ \E l \in 1..Len(out) :
                    /\ out[l].tag = (IF lastReq.op = "create" THEN "ERR_REG" ELSE "ERR_UPD")
                    /\ out[l].args[1] = LocalKey(lastReq.row)
        /\ (n > 0 /\ callResponses[n].status = 200) =>
              \E l \in 1..Len(out) :
                    /\ out[l].tag = (IF lastReq.op = "create" THEN "OK_REG" ELSE "OK_UPD")
                    /\ out[l].args[1] = LocalKey(lastReq.row)

C5_Witness ==
    /\ pc = "done"
    /\ \E i, j \in 1..Len(out) :
          i < j /\ out[i].tag = "ERR_REG" /\ out[j].tag = "OK_REG"

\* C6: a file in which a row repeats the key of an earlier row makes load_csv
\* raise at the first such row, with that row's key, before any request.
FileHasKeyColumns ==
    \A i \in 1..Len(COMPOSITE_KEY) : COMPOSITE_KEY[i] \in csv_file.header
FileRepeats ==
    {j \in 1..Len(csv_file.rows) :
        \E i \in 1..(j - 1) : LocalKey(csv_file.rows[i]) = LocalKey(csv_file.rows[j])}
C6_DuplicateLocalKeyFailsFirst ==
    (FileHasKeyColumns /\ FileRepeats # {} /\ pc # "load") =>
        /\ pc = "error"
        /\ err = [type |-> "DuplicateLocalKey",
                  key |-> LocalKey(csv_file.rows[Least(FileRepeats)]),
                  at |-> Least(FileRepeats)]
        /\ queryLog = <<>>
        /\ NoWriteSent

C6_Witness ==
    /\ pc = "error"
    /\ err.type = "DuplicateLocalKey"
    /\ err.at = 2
    /\ db # <<>>

\* C7: two pages with one key, in one response or in two, make the fetch
\* raise at the second of them, and a run ended by a duplicate or missing key
\* has sent no create and no update.
DbRepeats ==
    {j \in 1..Len(db) : \E i \in 1..(j - 1) : RemoteKey(db[i]) = RemoteKey(db[j])}
C7_KeyErrorsAbortBeforeWrites ==
    /\ (pc = "error" /\ err.type \in {"DuplicateLocalKey", "DuplicateRemoteKey", "KeyError"})
          => NoWriteSent
    /\ Cardinality(RemoteKeys(results)) = Len(results)
    /\ Cardinality(RemoteKeys(notion_pages)) = Len(notion_pages)
    /\ pc = "fetch" => \A j \in DbRepeats : j > Len(results)
    /\ pc \in {"filter", "dispatch"} => DbRepeats = {} /\ notion_pages = db
    /\ (pc = "error" /\ err.type = "DuplicateRemoteKey") =>
          /\ DbRepeats # {}
          /\ err.at = Least(DbRepeats)
          /\ err.key = RemoteKey(db[err.at])
          /\ notion_pages = <<>>

C7_Witness ==
    /\ pc = "error"
    /\ err.type = "DuplicateRemoteKey"
    /\ err.at = 2
    /\ Len(queryLog) = 2

\* the decimal text of a small number
Decimal(n) == <<CHOOSE c \in {"0", "1", "2", "3", "4", "5", "6", "7", "8", "9"} :
                    DigitValue(c) = n>>

\* C8 as stated: a dry run sends no write and prints the number of actions it
\* would have taken.
C8_DryRunReportsCount ==
    (dryrun /\ pc = "done") =>
        /\ NoWriteSent
        /\ \E i \in 1..Len(out) : \E j \in 1..Len(out[i].args) :
              out[i].args[j] = Decimal(Len(new_rows) + Len(update_rows))

\* C8 as amended: a dry run loads, fetches and reconciles, sends no write,
\* and prints the fixed notice and the closing line after the [SKIP] lines of
\* the rows that exist already; no line carries a count.
C8_DryRunNoWrites ==
    dryrun =>
        /\ NoWriteSent
        /\ pc \notin {"register", "update"}
        /\ pc = "done" =>
              /\ csv_rows = csv_file.rows
              /\ queryLog # <<>>
              /\ notion_pages = db
              /\ Len(new_rows) + Len(update_rows) = Len(csv_rows)
              /\ out = [i \in 1..Len(update_rows) |->
                          Line("SKIP", <<LocalKey(update_rows[i])>>)]
                       \o <<Line("DRYRUN", <<>>), Line("DONE", <<>>)>>

C8_Witness ==
    /\ dryrun
    /\ pc = "done"
    /\ new_rows # <<>>
    /\ update_rows # <<>>

\* C9: a run that went through its upsert phase exits with a failure status
\* exactly when a create or an update failed for good.
C9_ExitStatusReflectsFailures ==
    (pc = "done" /\ ~dryrun) =>
        ((exitStatus # 0) <=> Tags({"ERR_REG", "ERR_UPD", "ERR_NOPAGE"}) # <<>>)


\* ----------------------------------------------------- claims on the fetch
RECURSIVE Batches(_)
Batches(log) == IF log = <<>> THEN <<>> ELSE Head(log).results \o Batches(Tail(log))
Fetched == pc \in {"filter", "dispatch", "register", "update", "finish", "done"}

\* C11: the first query request carries no cursor and every later one carries
\* the cursor that the response before it returned, a request is sent only
\* after a response with has_more true, and when the fetch has returned, its
\* last response has has_more false and the pages it returned are the
\* batches of the responses joined in arrival order, each page once.
C11_FetchFollowsCursor ==
    /\ Len(responseLog) \in {Len(queryLog), Len(queryLog) - 1}
    /\ queryLog # <<>> => queryLog[1] = 0
    /\ \A i \in 2..Len(queryLog) :
          /\ responseLog[i - 1].has_more
          /\ queryLog[i] = responseLog[i - 1].next_cursor
    /\ Fetched =>
          /\ Len(responseLog) = Len(queryLog)
          /\ responseLog # <<>>
          /\ ~responseLog[Len(responseLog)].has_more
          /\ notion_pages = Batches(responseLog)
          /\ \A i, j \in 1..Len(notion_pages) :
                notion_pages[i].id = notion_pages[j].id => i = j

\* a fetch of two requests has returned both batches
C11_Witness ==
    /\ pc = "filter"
    /\ Len(queryLog) = 2 /\ queryLog[2] # 0
    /\ Len(notion_pages) = 2

\* C12: when a query request fails, the run ends there with the error: main
\* holds no fetched pages, however many the fetch had collected, no row is
\* classified, and no create or update request is sent.
C12_FetchFailureIsFatal ==
    err.type = "RequestError" =>
        /\ pc = "error" /\ exitStatus = 1
        /\ notion_pages = <<>>
        /\ new_rows = <<>> /\ update_rows = <<>> /\ out = <<>>
        /\ NoWriteSent /\ createdKeys = <<>>

\* the second request failed after the first had brought a page
C12_Witness ==
    /\ err.type = "RequestError" /\ err.at = 2
    /\ results # <<>>
    /\ csv_rows # <<>>


\* ------------------------------------------- claims on an unsupported type
\* make_notion_payload and extract_notion_composite_key hold no print and no
\* raise for a typ their elif chains do not name, so cPrinted stays empty.

\* C13: when the mapped column has an unsupported type, a warning naming the
\* type and the column is recorded, the column is left out of the payload,
\* and the payload still holds the supported column.
C13_UnsupportedKindWarned ==
    (cpc = "decoded" /\ cKind \notin SupportedKinds) =>
        /\ \E i \in 1..Len(cPrinted) :
              cPrinted[i] = Line("WARN_KIND", <<cKind, "Col">>)
        /\ "ColProp" \notin DOMAIN cPayload
        /\ "NameProp" \in DOMAIN cPayload


\* ------------------------------------------------- claims on termination
AllOutcomes ==
    /\ TaggedKeys({"OK_REG", "ERR_REG"})
          = [i \in 1..Len(new_rows) |-> LocalKey(new_rows[i])]
    /\ TaggedKeys({"OK_UPD", "ERR_UPD", "ERR_NOPAGE"})
          = [i \in 1..Len(update_rows) |-> LocalKey(update_rows[i])]
RunEnded == pc = "error" \/ (pc = "done" /\ (dryrun \/ AllOutcomes))
Throttled == inCall /\ pc \in {"register", "update"}

\* C14: if no call stays in its 429 loop for ever, the run ends, and when it
\* ends after the writes every row of both batches has its outcome line; so
\* a run that never ends is, from some point on, for ever inside the 429
\* loop of one call.
C14_WritesTerminate == ([]<>(~Throttled)) => <>RunEnded

\* a run has ended whose latest call was answered 429 twice before its outcome
C14_Witness ==
    /\ pc = "done" /\ ~dryrun
    /\ Len(new_rows) + Len(update_rows) = 2
    /\ Len(callSleeps) >= 2
    /\ AllOutcomes


\* ---------------------------------------------------- claims on running again
\* C15: over the runs on one CSV file no key is created twice, a run that
\* follows a creation classifies the created row as an update, and it does
\* not fail on a repeated key in the database.
C15_RerunCreatesOnce ==
    /\ \A i, j \in 1..Len(createdKeys) : createdKeys[i] = createdKeys[j] => i = j
    /\ (run > 1 /\ pc = "dispatch") =>
          \A i \in 1..Len(csv_rows) :
              (\E c \in 1..Len(createdKeys) : createdKeys[c] = LocalKey(csv_rows[i]))
                  => \E u \in 1..Len(update_rows) : update_rows[u] = csv_rows[i]
    /\ (run > 1 /\ createdKeys # <<>>) => err.type # "DuplicateRemoteKey"

====
